---- MODULE Spec2Model ----
(***************************************************************************)
(* Model of HashMap<KeyType, ValueType, Hash> (src/hash_map.h): a hash map *)
(* with separate chaining.  elements_ is a std::list of (key, value) pairs *)
(* in insertion order; table_ is a vector of chains of list iterators.     *)
(*                                                                         *)
(* Several HashMap objects live in one address space.  A list node has an  *)
(* identity (its address), written as a positive integer; a list iterator  *)
(* is the identity of the node it points to, and end() of map m is the     *)
(* non-positive integer -m.  An iterator whose node is in no list is       *)
(* dangling: dereferencing it is undefined behaviour, modelled as a        *)
(* nondeterministic read (the comparison with a key may go either way, a   *)
(* value read may yield any value) or as the end of the process (crashed). *)
(***************************************************************************)
EXTENDS Integers, Sequences, FiniteSets, TLC

\* ------------------------------------------------------------------ bounds
MaxElems == 3
MaxVal == 1

\* The client program: HashMap<int, int, H> objects 1 and 2.  Every member
\* function is applied to the maps in Subjects; the other map is filled by
\* insert and is the right-hand side of operator=.
Maps == {1, 2}
Subjects == {1}
NumMaps == Cardinality(Maps)
Keys == {0, 1}
Vals == 0..MaxVal

\* ------------------------------------------------------- program constants
EXPANSION_COEFFICIENT == 2
InitialTableSize == 1
DefaultValue == 0

\* The hash functions the maps are constructed with: std::hash<int> (the
\* identity in libstdc++) and a user-supplied one, k |-> 2k + 1.
Hashers == {"std", "odd"}

Hash(hasher, k) == IF hasher = "std" THEN k ELSE 2 * k + 1

InitialHasher(m) == IF m = 1 THEN "std" ELSE "odd"

VARIABLES table_, elements_, nElements_, table_size_, hasher_, crashed, call

vars == <<table_, elements_, nElements_, table_size_, hasher_, crashed, call>>

\* The objects' fields as one value, so that the member functions can be
\* written as operators from a state to the set of states they can produce.
State == [table_ |-> table_, elements_ |-> elements_, nElements_ |-> nElements_,
          table_size_ |-> table_size_, hasher_ |-> hasher_]

\* ------------------------------------------------------------ size, empty
size(S, m) == S.nElements_[m]

empty(S, m) == S.nElements_[m] = 0

\* ------------------------------------------------------------- list nodes
End(m) == 0 - m

KeyNotFound == 0 - (NumMaps + 1)

Void == 0

Range(s) == {s[i] : i \in 1..Len(s)}

NodesOf(S, m) == {e.node : e \in Range(S.elements_[m])}

LiveNodes(S) == UNION {NodesOf(S, m) : m \in Maps}

HandlesOf(S, m) == UNION {Range(S.table_[m][i]) : i \in 1..Len(S.table_[m])}

IsLive(S, h) == h \in LiveNodes(S)

Deref(S, h) == CHOOSE e \in UNION {Range(S.elements_[m]) : m \in Maps} : e.node = h

\* The address of a list node newly allocated for map m: one that no list
\* holds and no stored iterator refers to.  (An allocator may also hand out
\* again the address a dangling iterator holds; what is then read through
\* that iterator is one of the values the nondeterministic read covers.)
NewNode(S, m) ==
    LET used == LiveNodes(S) \cup UNION {HandlesOf(S, x) : x \in Maps}
        arena == {j * NumMaps + m : j \in 0..Cardinality(used)}
    IN  CHOOSE n \in arena : n \notin used /\ \A j \in arena : j < n => j \in used

\* size_t arithmetic: a negative integer v stands for 2^64 + v.
SizeGreater(a, b) ==
    IF (a < 0) = (b < 0) THEN a > b ELSE a < 0

SizeDec(n) == n - 1

\* --------------------------------------------------------------- lookup
Slot(S, m, k) == Hash(S.hasher_[m], k) % S.table_size_[m]

Chain(S, m, h) == S.table_[m][h + 1]

\* The scan of one chain for key k, from position i on: the position of the
\* first iterator whose key equals k, 0 if there is none.  ub tells that a
\* dangling iterator was dereferenced on the way.
RECURSIVE Scan(_, _, _, _)
Scan(S, chain, k, i) ==
    IF i > Len(chain) THEN {[pos |-> 0, ub |-> FALSE]}
    ELSE IF IsLive(S, chain[i])
         THEN IF Deref(S, chain[i]).key = k
              THEN {[pos |-> i, ub |-> FALSE]}
              ELSE Scan(S, chain, k, i + 1)
         ELSE {[pos |-> i, ub |-> TRUE]}
              \cup {[pos |-> r.pos, ub |-> TRUE] : r \in Scan(S, chain, k, i + 1)}

find(S, m, k) ==
    LET chain == Chain(S, m, Slot(S, m, k))
    IN  {[iter |-> IF r.pos = 0 THEN End(m) ELSE chain[r.pos], ub |-> r.ub] :
            r \in Scan(S, chain, k, 1)}

\* ---------------------------------------------------------------- growth
\* Growth as soon as the load factor reaches 1 instead of when it exceeds 1.
need_to_expand_AtCapacity(S, m) == ~SizeGreater(S.table_size_[m], S.nElements_[m])

need_to_expand(S, m) == SizeGreater(S.nElements_[m], S.table_size_[m])

RECURSIVE Rehash(_, _, _, _)
Rehash(tab, elems, hasher, cap) ==
    IF elems = <<>> THEN tab
    ELSE LET h == Hash(hasher, Head(elems).key) % cap
         IN  Rehash([tab EXCEPT ![h + 1] = Append(@, Head(elems).node)],
                    Tail(elems), hasher, cap)

expand(S, m) ==
    LET cap == S.table_size_[m] * EXPANSION_COEFFICIENT
    IN  [S EXCEPT !.table_size_[m] = cap,
                  !.table_[m] = Rehash([i \in 1..cap |-> <<>>],
                                       S.elements_[m], S.hasher_[m], cap)]

expand_if_necessary(S, m) == IF need_to_expand(S, m) THEN expand(S, m) ELSE S

\* ---------------------------------------------------------------- insert
\* ++nElements_; elements_.push_back(a); table_[h].push_back(--elements_.end())
PushBack(S, m, k, v) ==
    LET h == Slot(S, m, k)
        n == NewNode(S, m)
    IN  [S EXCEPT !.nElements_[m] = @ + 1,
                  !.elements_[m] = Append(@, [node |-> n, key |-> k, val |-> v]),
                  !.table_[m][h + 1] = Append(@, n)]

insert(S, m, k, v) ==
    {[S |-> IF r.iter # End(m) THEN S
            ELSE expand_if_necessary(PushBack(S, m, k, v), m),
      ub |-> r.ub] : r \in find(S, m, k)}

\* ----------------------------------------------------------------- erase
RemoveAt(s, i) == SubSeq(s, 1, i - 1) \o SubSeq(s, i + 1, Len(s))

\* elements_.erase(it): the node is unlinked from the list that holds it.
Unlink(elems, h) == SelectSeq(elems, LAMBDA e : e.node # h)

\* erase that gives the table back when the last entry goes.
erase_Shrinks(S, m, k) ==
    LET h == Slot(S, m, k)
        chain == Chain(S, m, h)
    IN  {IF r.pos = 0 THEN [S |-> S, ub |-> r.ub]
         ELSE [S |-> [S EXCEPT !.elements_ = [x \in Maps |-> Unlink(@[x], chain[r.pos])],
                               !.table_[m][h + 1] = RemoveAt(@, r.pos),
                               !.nElements_[m] = SizeDec(@),
                               !.table_size_[m] = IF S.nElements_[m] = 1
                                                  THEN InitialTableSize ELSE @],
               ub |-> r.ub \/ chain[r.pos] \notin NodesOf(S, m)] :
            r \in Scan(S, chain, k, 1)}

erase(S, m, k) ==
    LET h == Slot(S, m, k)
        chain == Chain(S, m, h)
    IN  {IF r.pos = 0 THEN [S |-> S, ub |-> r.ub]
         ELSE [S |-> [S EXCEPT !.elements_ = [x \in Maps |-> Unlink(@[x], chain[r.pos])],
                               !.table_[m][h + 1] = RemoveAt(@, r.pos),
                               !.nElements_[m] = SizeDec(@)],
               ub |-> r.ub \/ chain[r.pos] \notin NodesOf(S, m)] :
            r \in Scan(S, chain, k, 1)}

\* ------------------------------------------------------------ operator[]
returning_insert(S, m, k, v) ==
    LET h == Slot(S, m, k)
        S1 == PushBack(S, m, k, v)
    IN  IF need_to_expand(S1, m)
        THEN {[S |-> expand(S1, m), iter |-> r.iter, ub |-> r.ub] :
                 r \in find(expand(S1, m), m, k)}
        ELSE {[S |-> S1, iter |-> Chain(S1, m, h)[Len(Chain(S1, m, h))], ub |-> FALSE]}

index(S, m, k) ==
    UNION {IF r.iter = End(m)
           THEN {[S |-> o.S, iter |-> o.iter, ub |-> r.ub \/ o.ub] :
                    o \in returning_insert(S, m, k, DefaultValue)}
           ELSE {[S |-> S, iter |-> r.iter, ub |-> r.ub]} :
        r \in find(S, m, k)}

\* A store through the reference operator[] returned.
Store(S, h, v) ==
    [S EXCEPT !.elements_ = [x \in Maps |->
        [i \in 1..Len(@[x]) |-> IF @[x][i].node = h THEN [@[x][i] EXCEPT !.val = v]
                                ELSE @[x][i]]]]

\* -------------------------------------------------------------------- at
at(S, m, k) ==
    UNION {IF r.iter = End(m) THEN {[out |-> KeyNotFound, ub |-> r.ub]}
           ELSE IF IsLive(S, r.iter) THEN {[out |-> Deref(S, r.iter).val, ub |-> r.ub]}
           ELSE {[out |-> v, ub |-> TRUE] : v \in Vals} :
        r \in find(S, m, k)}

\* ----------------------------------------------------------------- clear
RECURSIVE ClearChains(_, _, _, _)
ClearChains(tab, elems, hasher, cap) ==
    IF elems = <<>> THEN tab
    ELSE LET h == Hash(hasher, elems[Len(elems)].key) % cap
         IN  ClearChains([tab EXCEPT ![h + 1] = <<>>],
                         SubSeq(elems, 1, Len(elems) - 1), hasher, cap)

\* clear() that also empties the vector of chains.
clear_DropsSlots(S, m) ==
    [S EXCEPT !.table_[m] = <<>>,
              !.elements_[m] = <<>>,
              !.nElements_[m] = 0,
              !.table_size_[m] = InitialTableSize]

\* clear() that forgets to reset table_size_.
clear_KeepsCapacity(S, m) ==
    [S EXCEPT !.table_[m] = ClearChains(@, S.elements_[m], S.hasher_[m], S.table_size_[m]),
              !.elements_[m] = <<>>,
              !.nElements_[m] = 0]

clear(S, m) ==
    [S EXCEPT !.table_[m] = ClearChains(@, S.elements_[m], S.hasher_[m], S.table_size_[m]),
              !.elements_[m] = <<>>,
              !.nElements_[m] = 0,
              !.table_size_[m] = InitialTableSize]

\* ------------------------------------------------------------- operator=
RECURSIVE InsertAll(_, _, _)
InsertAll(S, m, elems) ==
    IF elems = <<>> THEN {[S |-> S, ub |-> FALSE]}
    ELSE UNION {{[S |-> o2.S, ub |-> o1.ub \/ o2.ub] :
                    o2 \in InsertAll(o1.S, m, Tail(elems))} :
                o1 \in insert(S, m, Head(elems).key, Head(elems).val)}

assign(S, m, other) ==
    IF m = other THEN {[S |-> S, ub |-> FALSE]}
    ELSE {[S |-> [o.S EXCEPT !.hasher_[m] = S.hasher_[other]], ub |-> o.ub] :
             o \in InsertAll(clear(S, m), m, S.elements_[other])}

\* ------------------------------------------------------ copy construction
\* HashMap has no user-declared copy constructor: HashMap c(a) copies the
\* members one by one.  The copy of the list has nodes of its own; the copy
\* of table_ holds the same iterators as the original's.
RECURSIVE CopyNodes(_, _, _)
CopyNodes(S, m, elems) ==
    IF elems = <<>> THEN S
    ELSE CopyNodes([S EXCEPT !.elements_[m] =
                        Append(@, [Head(elems) EXCEPT !.node = NewNode(S, m)])],
                   m, Tail(elems))

copy(S, m, other) ==
    CopyNodes([S EXCEPT !.table_[m] = S.table_[other],
                        !.elements_[m] = <<>>,
                        !.nElements_[m] = S.nElements_[other],
                        !.table_size_[m] = S.table_size_[other],
                        !.hasher_[m] = S.hasher_[other]],
              m, S.elements_[other])

\* ------------------------------------------------------------- the system
Init ==
    /\ table_ = [m \in Maps |-> [i \in 1..InitialTableSize |-> <<>>]]
    /\ elements_ = [m \in Maps |-> <<>>]
    /\ nElements_ = [m \in Maps |-> 0]
    /\ table_size_ = [m \in Maps |-> InitialTableSize]
    /\ hasher_ = [m \in Maps |-> InitialHasher(m)]
    /\ crashed = FALSE
    /\ call = [op |-> "HashMap", map |-> 0, key |-> 0, val |-> 0, out |-> Void]

\* An operation returns: the fields take the values of outcome S2.  When the
\* operation executed undefined behaviour the process may instead end.
Return(S2, ub, c) ==
    \/ /\ table_' = S2.table_
       /\ elements_' = S2.elements_
       /\ nElements_' = S2.nElements_
       /\ table_size_' = S2.table_size_
       /\ hasher_' = S2.hasher_
       /\ call' = c
       /\ UNCHANGED crashed
    \/ /\ ub
       /\ crashed' = TRUE
       /\ call' = [c EXCEPT !.out = Void]
       /\ UNCHANGED <<table_, elements_, nElements_, table_size_, hasher_>>

\* The bound on the length of a list: a call that would add an entry is
\* taken only while the list has room.
HasRoom(S, m) == Len(S.elements_[m]) < MaxElems

Insert(m, k, v) ==
    /\ ~crashed
    /\ \E o \in insert(State, m, k, v) :
          /\ o.S = State \/ HasRoom(State, m)
          /\ Return(o.S, o.ub, [op |-> "insert", map |-> m, key |-> k, val |-> v, out |-> Void])

Erase(m, k) ==
    /\ ~crashed
    /\ \E o \in erase(State, m, k) :
          Return(o.S, o.ub, [op |-> "erase", map |-> m, key |-> k, val |-> 0, out |-> Void])

Find(m, k) ==
    /\ ~crashed
    /\ \E r \in find(State, m, k) :
          Return(State, r.ub, [op |-> "find", map |-> m, key |-> k, val |-> 0, out |-> r.iter])

At(m, k) ==
    /\ ~crashed
    /\ \E r \in at(State, m, k) :
          Return(State, r.ub, [op |-> "at", map |-> m, key |-> k, val |-> 0, out |-> r.out])

\* map[k]
Index(m, k) ==
    /\ ~crashed
    /\ \E o \in index(State, m, k) :
          /\ o.S = State \/ HasRoom(State, m)
          /\ Return(o.S, o.ub, [op |-> "operator[]", map |-> m, key |-> k, val |-> 0, out |-> o.iter])

\* map[k] = v
IndexStore(m, k, v) ==
    /\ ~crashed
    /\ \E o \in index(State, m, k) :
          /\ o.S = State \/ HasRoom(State, m)
          /\ Return(Store(o.S, o.iter, v), o.ub \/ ~IsLive(o.S, o.iter),
                    [op |-> "operator[]=", map |-> m, key |-> k, val |-> v, out |-> o.iter])

Size(m) ==
    /\ ~crashed
    /\ Return(State, FALSE, [op |-> "size", map |-> m, key |-> 0, val |-> 0, out |-> size(State, m)])

\* The result of empty() is written 1 for true, 0 for false.
Empty(m) ==
    /\ ~crashed
    /\ Return(State, FALSE, [op |-> "empty", map |-> m, key |-> 0, val |-> 0,
                             out |-> IF empty(State, m) THEN 1 ELSE 0])

Clear(m) ==
    /\ ~crashed
    /\ Return(clear(State, m), FALSE, [op |-> "clear", map |-> m, key |-> 0, val |-> 0, out |-> Void])

Assign(m, other) ==
    /\ ~crashed
    /\ \E o \in assign(State, m, other) :
          Return(o.S, o.ub, [op |-> "operator=", map |-> m, key |-> other, val |-> 0, out |-> Void])

Next ==
    \/ \E m \in Maps, k \in Keys, v \in Vals : Insert(m, k, v)
    \/ \E m \in Subjects, k \in Keys : Erase(m, k)
    \/ \E m \in Subjects, k \in Keys : Find(m, k)
    \/ \E m \in Subjects, k \in Keys : At(m, k)
    \/ \E m \in Subjects, k \in Keys : Index(m, k)
    \/ \E m \in Subjects, k \in Keys, v \in Vals : IndexStore(m, k, v)
    \/ \E m \in Subjects : Size(m)
    \/ \E m \in Subjects : Empty(m)
    \/ \E m \in Subjects : Clear(m)
    \/ \E m \in Subjects, other \in Maps : Assign(m, other)

Spec == Init /\ [][Next]_vars
\* ------------------------------------------------ a program with a copy
\* HashMap c(a).  Map m, still empty as its constructor left it, ends its
\* lifetime and the name m is given to a new object that is copy-constructed
\* from map other.
Unused(S, m) ==
    /\ S.elements_[m] = <<>>
    /\ S.table_[m] = [i \in 1..InitialTableSize |-> <<>>]
    /\ S.table_size_[m] = InitialTableSize
    /\ S.hasher_[m] = InitialHasher(m)

CopyConstruct(m, other) ==
    /\ ~crashed
    /\ m # other
    /\ Unused(State, m)
    /\ Return(copy(State, m, other), FALSE,
              [op |-> "HashMap(const HashMap&)", map |-> m, key |-> other, val |-> 0, out |-> Void])

NextCopy ==
    \/ \E m \in Subjects, k \in Keys, v \in Vals : Insert(m, k, v)
    \/ \E m \in Maps \ Subjects, other \in Subjects : CopyConstruct(m, other)
    \/ \E m \in Maps, k \in Keys : Erase(m, k)
    \/ \E m \in Maps, k \in Keys : Find(m, k)

SpecCopy == Init /\ [][NextCopy]_vars

\* ================================================================ claims
\* What iteration from begin() to end() yields.
Pairs(S, m) == [i \in 1..Len(S.elements_[m]) |-> <<S.elements_[m][i].key, S.elements_[m][i].val>>]

KeySeq(S, m) == [i \in 1..Len(S.elements_[m]) |-> S.elements_[m][i].key]

Present(S, m, k) == \E e \in Range(S.elements_[m]) : e.key = k

\* The values find(k)->second and at(k) can yield (KeyNotFound for end()).
Lookup(S, m, k) == {r.out : r \in at(S, m, k)}

\* The positions <<slot, place>> of table_ of map m that hold iterator h.
Places(S, m, h) ==
    {p \in (1..Len(S.table_[m])) \X (1..(Cardinality(HandlesOf(S, m)) + MaxElems)) :
        p[2] <= Len(S.table_[m][p[1]]) /\ S.table_[m][p[1]][p[2]] = h}

\* The step is a completed call of op on some map.
Called(op) == call'.op = op /\ ~crashed'

\* C1: every entry of elements_ has exactly one iterator in table_, and it
\* is in slot hasher_(key) % table_size_.
C1_OneHandleInCurrentSlot ==
    \A m \in Maps : \A e \in Range(elements_[m]) :
        /\ Cardinality(Places(State, m, e.node)) = 1
        /\ \A p \in Places(State, m, e.node) : p[1] = Slot(State, m, e.key) + 1

\* C2: no two entries of elements_ have equal keys.
C2_UniqueKeys ==
    \A m \in Maps : \A i, j \in 1..Len(elements_[m]) :
        i # j => elements_[m][i].key # elements_[m][j].key

\* C3: insert(k, v) of a key that is present changes nothing: entries,
\* values, order, size and capacity stay as they are.
C3_DuplicateInsertNoOp ==
    [][(Called("insert") /\ Present(State, call'.map, call'.key)) =>
          /\ elements_' = elements_
          /\ nElements_' = nElements_
          /\ table_size_' = table_size_]_vars

C5_EraseCompleteness ==
    [][Called("erase") =>
          LET m == call'.map
              k == call'.key
          IN  /\ Lookup(State', m, k) = {KeyNotFound}
              /\ nElements_'[m] = IF Present(State, m, k) THEN nElements_[m] - 1
                                  ELSE nElements_[m]
              /\ Len(elements_'[m]) >= Len(elements_[m]) - 1
              /\ HandlesOf(State', m) \cap (NodesOf(State, m) \ NodesOf(State', m)) = {}
              /\ ~Present(State, m, k) =>
                    elements_' = elements_ /\ table_' = table_]_vars

\* C6: iteration yields the keys of the reference model: insert and
\* operator[] append a key that is not there, erase deletes it.
RefInsert(keys, k) == IF k \in Range(keys) THEN keys ELSE Append(keys, k)

RefErase(keys, k) == SelectSeq(keys, LAMBDA x : x # k)

C6_OrderPreservation ==
    [][~crashed' =>
          LET m == call'.map
              k == call'.key
          IN  /\ call'.op \in {"insert", "operator[]", "operator[]="}
                 => KeySeq(State', m) = RefInsert(KeySeq(State, m), k)
              /\ call'.op = "erase"
                 => KeySeq(State', m) = RefErase(KeySeq(State, m), k)
              /\ call'.op = "clear" => KeySeq(State', m) = <<>>
              /\ call'.op = "operator=" => KeySeq(State', m) = KeySeq(State, call'.key)
              /\ call'.op \in {"find", "at"} => KeySeq(State', m) = KeySeq(State, m)]_vars

\* C7: when insert or operator[] doubles the capacity, every key that was
\* findable stays findable with the same value, and the rehash leaves the
\* entries that were in elements_ and their order as they were.
C7_ResizeCorrectness ==
    [][(/\ ~crashed'
        /\ call'.op \in {"insert", "operator[]"}
        /\ table_size_'[call'.map] > table_size_[call'.map]) =>
          LET m == call'.map
          IN  /\ \A k \in Keys, v \in Vals :
                    Lookup(State, m, k) = {v} => Lookup(State', m, k) = {v}
              /\ Len(elements_'[m]) = Len(elements_[m]) + 1
              /\ SubSeq(elements_'[m], 1, Len(elements_[m])) = elements_[m]]_vars

\* C8: after a = b (a, b distinct) a has b's hash function and find(k) and
\* at(k) on a yield b's value for every key k of b.
C8_AssignFindable ==
    [][(Called("operator=") /\ call'.map # call'.key) =>
          LET m == call'.map
              other == call'.key
          IN  /\ hasher_'[m] = hasher_[other]
              /\ \A e \in Range(elements_[other]) :
                    Lookup(State', m, e.key) = {e.val}]_vars

\* C9: after a = b (a, b distinct) iterating a yields b's entries in b's
\* order and a.size() = b.size(); b is unchanged; a = a changes nothing.
FieldsOf(S, m) == <<S.table_[m], S.elements_[m], S.nElements_[m], S.table_size_[m], S.hasher_[m]>>

C9_AssignCopies ==
    [][Called("operator=") =>
          LET m == call'.map
              other == call'.key
          IN  IF m # other
              THEN /\ Pairs(State', m) = Pairs(State, other)
                   /\ nElements_'[m] = nElements_[other]
                   /\ FieldsOf(State', other) = FieldsOf(State, other)
              ELSE FieldsOf(State', m) = FieldsOf(State, m)]_vars

\* C10: at(k) throws exactly when k is absent and otherwise returns k's
\* value; it changes nothing; find, erase and insert never throw.
C10_AtThrowsIffAbsent ==
    [][~crashed' =>
          /\ call'.op = "at" =>
                /\ (call'.out = KeyNotFound) <=> ~Present(State, call'.map, call'.key)
                /\ call'.out # KeyNotFound =>
                      <<call'.key, call'.out>> \in Range(Pairs(State, call'.map))
                /\ State' = State
          /\ call'.op \in {"find", "erase", "insert"} => call'.out # KeyNotFound]_vars

\* C11: operator[](k) on an absent key appends (k, ValueType()) at the end,
\* increases size() by one and returns a reference into that new entry, also
\* when the capacity doubles; on a present key it returns a reference into
\* an existing entry of k and changes neither size() nor any entry.
C11_AutoVivification ==
    [][Called("operator[]") =>
          LET m == call'.map
              k == call'.key
              n == Len(elements_[m])
          IN  IF ~Present(State, m, k)
              THEN /\ Len(elements_'[m]) = n + 1
                   /\ SubSeq(elements_'[m], 1, n) = elements_[m]
                   /\ elements_'[m][n + 1].key = k
                   /\ elements_'[m][n + 1].val = DefaultValue
                   /\ nElements_'[m] = nElements_[m] + 1
                   /\ call'.out = elements_'[m][n + 1].node
              ELSE /\ elements_' = elements_
                   /\ nElements_' = nElements_
                   /\ call'.out \in NodesOf(State, m)
                   /\ Deref(State, call'.out).key = k]_vars

\* C12: after clear() size() is 0, empty() is true, iteration yields nothing
\* and the capacity is the initial 1; a second clear() changes nothing more.
C12_ClearResets ==
    [][Called("clear") =>
          LET m == call'.map
          IN  /\ size(State', m) = 0
              /\ empty(State', m)
              /\ Pairs(State', m) = <<>>
              /\ table_size_'[m] = InitialTableSize
              /\ clear(State', m) = State']_vars

\* clear() has emptied a map that held entries and had grown.
C12_Witness ==
    /\ call.op = "clear"
    /\ ~crashed
    /\ Len(table_[call.map]) > InitialTableSize
    /\ elements_[call.map] = <<>>

\* C13: size() equals the number of entries of elements_, and empty() is
\* true exactly when there is none.
C13_SizeIsCount ==
    \A m \in Maps :
        /\ size(State, m) = Len(elements_[m])
        /\ empty(State, m) <=> (Len(elements_[m]) = 0)

\* C14: the number of slots of table_ equals the capacity table_size_, also
\* after clear() and operator=.
C14_SlotsEqualCapacity ==
    \A m \in Maps : Len(table_[m]) = table_size_[m]

\* C15 as stated: the capacity after an operation is never smaller than the
\* capacity before it.
C15_NeverShrinks ==
    [][\A m \in Maps : table_size_'[m] >= table_size_[m]]_vars

\* C15, amended: the capacity never decreases across insert, erase, find, at,
\* operator[], size and empty; clear() resets it to the initial 1, and so
\* does the clear() inside operator= before the inserts grow it again.
C15_ShrinksOnlyOnClear ==
    [][~crashed' =>
          /\ call'.op \notin {"clear", "operator="}
             => \A m \in Maps : table_size_'[m] >= table_size_[m]
          /\ call'.op = "clear" => table_size_'[call'.map] = InitialTableSize
          /\ \A m \in Maps : table_size_'[m] >= InitialTableSize]_vars

\* erase has emptied a map whose capacity had grown, and the capacity stays.
C15_Witness ==
    /\ call.op = "erase"
    /\ ~crashed
    /\ elements_[call.map] = <<>>
    /\ table_size_[call.map] > InitialTableSize

C17_NoDanglingHandles ==
    \A m \in Maps : HandlesOf(State, m) \subseteq NodesOf(State, m)

\* C18: the capacity is at least 1 and every slot index hasher_(key) %
\* table_size_ is smaller than the number of slots table_ has.
C18_IndexSafety ==
    \A m \in Maps :
        /\ table_size_[m] >= 1
        /\ \A k \in Keys : Slot(State, m, k) >= 0 /\ Slot(State, m, k) < Len(table_[m])

\* A lookup has returned on a map that clear() left with capacity 1 and
\* more slots than that, and that holds an entry again.
C18_Witness ==
    /\ call.op \in {"find", "at", "erase", "operator[]"}
    /\ ~crashed
    /\ table_size_[call.map] = InitialTableSize
    /\ Len(table_[call.map]) > InitialTableSize
    /\ elements_[call.map] # <<>>

\* C20: size() <= capacity after every call, and the capacity is a power of
\* two.
PowersOfTwo == {1, 2, 4, 8, 16, 32}

C20_LoadFactorBound ==
    \A m \in Maps :
        /\ ~SizeGreater(size(State, m), table_size_[m])
        /\ table_size_[m] \in PowersOfTwo

\* C19: a copy-constructed map is independent of its source: the iterators
\* in the copy's table_ refer to entries of the copy's own elements_, find
\* on a map returns a position in that map, and erase on a map removes
\* nothing from another map.
C19_CopyIndependent ==
    [][~crashed' =>
          LET m == call'.map
          IN  /\ call'.op = "HashMap(const HashMap&)"
                 => HandlesOf(State', m) \subseteq NodesOf(State', m)
              /\ (call'.op = "find" /\ call'.out # End(m))
                 => call'.out \in NodesOf(State, m)
              /\ call'.op = "erase"
                 => \A x \in Maps \ {m} : elements_'[x] = elements_[x]]_vars
====
